---- MODULE Spec2Model ----
(***************************************************************************)
(* Model of consultor.py: the Flask handler query_database and the three   *)
(* SQLChatBot methods it calls (get_sql_query_from_openai, execute_query   *)
(* with connect_db, get_enhanced_response).                                *)
(*                                                                         *)
(* A request runs the handler's code; it can be preempted only where the   *)
(* code blocks on the network (the two requests.post calls,                *)
(* psycopg2.connect, cursor.execute), so there is one action per stretch   *)
(* of code between two blocking calls.  What the LLM service, the database *)
(* and the client send is drawn from small sets.                           *)
(*                                                                         *)
(* Python values:  None is <<>>, a value v that may be None is <<v>>.      *)
(* Message strings are TLA+ strings; the text of an LLM reply that becomes *)
(* the SQL query is a sequence of characters, because the code edits it.   *)
(***************************************************************************)
EXTENDS Integers, Sequences, FiniteSets, TLC

NumRequests == 2
MaxRows == 2

Requests == 1..NumRequests

None == <<>>
Some(v) == <<v>>

\* Python truthiness of a value that may be None: `not x` is IsFalsy(x, empty)
IsFalsy(opt, empty) == opt = None \/ opt[1] = empty

----------------------------------------------------------------------------
(* Strings the code edits: sequences of one-character strings.             *)

NL == "\n"
Whitespace == {" ", NL}

RECURSIVE LStrip(_)
LStrip(s) == IF s # <<>> /\ Head(s) \in Whitespace THEN LStrip(Tail(s)) ELSE s

RECURSIVE RStrip(_)
RStrip(s) ==
    IF s # <<>> /\ s[Len(s)] \in Whitespace THEN RStrip(SubSeq(s, 1, Len(s) - 1)) ELSE s

\* str.strip()
Strip(s) == RStrip(LStrip(s))

StartsWith(s, old) == Len(old) <= Len(s) /\ SubSeq(s, 1, Len(old)) = old

\* str.replace(old, ''): the non-overlapping occurrences, left to right
RECURSIVE Remove(_, _)
Remove(s, old) ==
    IF s = <<>> THEN <<>>
    ELSE IF StartsWith(s, old) THEN Remove(SubSeq(s, Len(old) + 1, Len(s)), old)
    ELSE <<Head(s)>> \o Remove(Tail(s), old)

\* BT stands for the backtick character
BT == "BT"
Fence == <<BT, BT, BT>>
FenceSql == Fence \o <<"s", "q", "l">>

\* line 68: strip(), then remove the fence with the sql tag, then the bare fence
CleanSql(content) == Remove(Remove(Strip(content), FenceSql), Fence)

----------------------------------------------------------------------------
(* What a call gives back: a returned value or a raised exception with its *)
(* text, str(e).                                                           *)

Return(v) == [raised |-> FALSE, text |-> "", value |-> v]
Raise(t) == [raised |-> TRUE, text |-> t, value |-> None]

\* What requests.post and the reply's json() can do.  kind "raise": the call
\* itself raises.  body "choices": the JSON of a completion, content is its
\* choices[0].message.content; "json": some other JSON object (an error
\* report); "text": not JSON at all.
LLMReply(kind, status, bdy, content) ==
    [kind |-> kind, status |-> status, body |-> bdy, content |-> content]

JsonErrorText == "Expecting value: line 1 column 1 (char 0)"
KeyErrorText == "'choices'"
PostErrorText == "Connection aborted."

\* lines 90-96 and 64-72 without the cleaning: post, test the status, read the
\* content (the else branch prints response.json(), which raises when the body
\* is not JSON)
ChatCompletion(reply) ==
    IF reply.kind = "raise" THEN Raise(PostErrorText)
    ELSE IF reply.body = "text" THEN Raise(JsonErrorText)
    ELSE IF reply.status = 200
         THEN IF reply.body = "choices" THEN Return(Some(reply.content))
              ELSE Raise(KeyErrorText)
         ELSE Return(None)

\* SQLChatBot.get_sql_query_from_openai
get_sql_query_from_openai(reply) ==
    LET c == ChatCompletion(reply)
    IN  IF c.raised \/ c.value = None THEN c ELSE Return(Some(CleanSql(c.value[1])))

\* get_enhanced_response with response.raise_for_status() before the status test
get_enhanced_response_raising(reply) ==
    IF reply.kind = "http" /\ reply.status # 200
    THEN Raise("500 Server Error")
    ELSE ChatCompletion(reply)

\* SQLChatBot.get_enhanced_response
get_enhanced_response(reply) == ChatCompletion(reply)

----------------------------------------------------------------------------
(* execute_query, lines 35-43, once connect_db has given a connection.     *)

\* BIN is a cell value jsonify cannot serialise (a bytea column's memoryview)
BIN == "BIN"

Min(a, b) == IF a < b THEN a ELSE b

\* dict(zip(row, columns)): the arguments swapped
ZipDictSwapped(columns, row) ==
    LET n == Min(Len(columns), Len(row))
        last(k) == CHOOSE i \in 1..n : row[i] = k /\ \A j \in (i + 1)..n : row[j] # k
    IN  [k \in {row[i] : i \in 1..n} |-> columns[last(k)]]

\* dict(zip(columns, row)): zip stops at the shorter one, a repeated key keeps
\* the value of its last occurrence
ZipDict(columns, row) ==
    LET n == Min(Len(columns), Len(row))
        last(k) == CHOOSE i \in 1..n :
                       columns[i] = k /\ \A j \in (i + 1)..n : columns[j] # k
    IN  [k \in {columns[i] : i \in 1..n} |-> row[last(k)]]

\* line 43 without its prefix: the bare text of the exception
ExecErrorStringBare(e) == e

\* line 43
ExecErrorString(e) == "Error en la base de datos: " \o e

\* line 33
ConnectErrorString == "No se pudo conectar a la base de datos."

\* What the cursor does with the statement.  kind "rows": execute and fetchall
\* succeed; "psycopg2.Error": execute or fetchall raises a psycopg2.Error with
\* this text; "ValueError": execute raises an exception that is no
\* psycopg2.Error (a NUL character in the statement).
DbOutcome(kind, columns, rows, text) ==
    [kind |-> kind, columns |-> columns, rows |-> rows, text |-> text]

\* lines 35-43: the pair (results, db_error) returned, or the exception that
\* propagates; closed tells whether line 40 ran
CursorBlock(out) ==
    LET with(res, c) == [raised |-> res.raised, text |-> res.text,
                         value |-> res.value, closed |-> c]
    IN  IF out.kind = "rows"
        THEN with(Return(<<Some([i \in 1..Len(out.rows) |->
                                    ZipDict(out.columns, out.rows[i])]),
                           None>>), TRUE)
        ELSE IF out.kind = "psycopg2.Error"
        THEN with(Return(<<None, Some(ExecErrorString(out.text))>>), FALSE)
        ELSE with(Raise(out.text), FALSE)

----------------------------------------------------------------------------
(* The responses of the handler.                                           *)

\* jsonify({"error": msg}), status
ErrorResponse(msg, status) ==
    [kind |-> "json", status |-> status, keys |-> {"error"}, error |-> Some(msg),
     data |-> None, enhanced_response |-> None]

\* line 107 (the message without its accent)
MissingInput == ErrorResponse("Falta el parametro 'userInput'", 400)

\* line 114
NoSqlQuery == ErrorResponse("No se pudo generar la consulta SQL", 500)

\* line 119 answering with a fixed message instead of db_error
GenericDbErrorResponse(db_error) == ErrorResponse("Error en la base de datos", 500)

\* line 119
DbErrorResponse(db_error) == ErrorResponse(db_error, 500)

\* line 126
GeneralError(text) == ErrorResponse("Error general: " \o text, 500)

\* An exception that leaves query_database: the framework answers for the
\* handler with its own 500 page, which is no JSON of the handler
Unhandled ==
    [kind |-> "unhandled", status |-> 500, keys |-> {}, error |-> None,
     data |-> None, enhanced_response |-> None]

Serializable(results) ==
    \A i \in 1..Len(results) : \A k \in DOMAIN results[i] : results[i][k] # BIN

SerializeErrorText == "Object of type memoryview is not JSON serializable"

\* line 123: jsonify raises on a value it cannot serialise, inside the try
SuccessResponse(results, detailed_response) ==
    IF Serializable(results)
    THEN [kind |-> "json", status |-> 200, keys |-> {"data", "enhanced_response"},
          error |-> None, data |-> Some(results),
          enhanced_response |-> detailed_response]
    ELSE GeneralError(SerializeErrorText)

\* line 106: if not user_input
InputMissing(user_input) == IsFalsy(user_input, "")

\* line 113 as: if sql_query is None
SqlMissingNoneOnly(sql_query) == sql_query = None

\* line 113: if not sql_query
SqlMissing(sql_query) == IsFalsy(sql_query, <<>>)

\* line 118: if db_error
DbFailed(db_error) == ~IsFalsy(db_error, "")

----------------------------------------------------------------------------
VARIABLES
    sql_chatbot,        \* the module-level SQLChatBot object (line 98)
    conns,              \* every connection psycopg2.connect has given, in order
    pc,                 \* where each request's handler stands
    body,               \* request.json of each request
    user_input, sql_query, conn, results, db_error, detailed_response,
                        \* the locals of query_database and execute_query
    response,           \* what the handler returned
    calls,              \* the external calls each request has made, in order
    genReply, connReply, execReply, explReply
                        \* what the outside answered to each request's calls

vars == <<sql_chatbot, conns, pc, body, user_input, sql_query, conn, results,
          db_error, detailed_response, response, calls,
          genReply, connReply, execReply, explReply>>

locals == <<user_input, sql_query, conn, results, db_error, detailed_response>>
replies == <<genReply, connReply, execReply, explReply>>

\* lines 15-18
SQLChatBot == [db_url |-> "DATABASE_URL", openai_api_key |-> "OPENAI_API_KEY"]

Init ==
    /\ sql_chatbot = SQLChatBot
    /\ conns = <<>>
    /\ pc = [r \in Requests |-> "idle"]
    /\ body = [r \in Requests |-> None]
    /\ user_input = [r \in Requests |-> None]
    /\ sql_query = [r \in Requests |-> None]
    /\ conn = [r \in Requests |-> None]
    /\ results = [r \in Requests |-> None]
    /\ db_error = [r \in Requests |-> None]
    /\ detailed_response = [r \in Requests |-> None]
    /\ response = [r \in Requests |-> None]
    /\ calls = [r \in Requests |-> <<>>]
    /\ genReply = [r \in Requests |-> None]
    /\ connReply = [r \in Requests |-> None]
    /\ execReply = [r \in Requests |-> None]
    /\ explReply = [r \in Requests |-> None]

\* return ..., status
Respond(r, resp) ==
    /\ response' = [response EXCEPT ![r] = Some(resp)]
    /\ pc' = [pc EXCEPT ![r] = "done"]

Goto(r, label) ==
    /\ pc' = [pc EXCEPT ![r] = label]
    /\ UNCHANGED response

\* A JSON body: null, an array, or an object with or without userInput
Body(kind, userInput) == [kind |-> kind, userInput |-> userInput]

\* lines 103-107: data = request.json; data.get("userInput") raises
\* AttributeError, outside the try, when data is no dict
Receive(r, b) ==
    /\ pc[r] = "idle"
    /\ body' = [body EXCEPT ![r] = Some(b)]
    /\ IF b.kind # "object"
       THEN /\ Respond(r, Unhandled)
            /\ UNCHANGED user_input
       ELSE /\ user_input' = [user_input EXCEPT ![r] = b.userInput]
            /\ IF InputMissing(b.userInput)
               THEN Respond(r, MissingInput)
               ELSE Goto(r, "generate")
    /\ UNCHANGED <<sql_chatbot, conns, sql_query, conn, results, db_error,
                   detailed_response, calls, replies>>

\* GenerateSql calling the LLM again when the call raised
GenerateSqlRetry(r, reply) ==
    /\ pc[r] = "generate"
    /\ Len(calls[r]) < 3
    /\ calls' = [calls EXCEPT ![r] = Append(@, "openai_sql")]
    /\ genReply' = [genReply EXCEPT ![r] = Some(reply)]
    /\ LET res == get_sql_query_from_openai(reply)
       IN  IF res.raised
           THEN /\ UNCHANGED <<pc, response, sql_query>>
           ELSE /\ sql_query' = [sql_query EXCEPT ![r] = res.value]
                /\ IF SqlMissing(res.value)
                   THEN Respond(r, NoSqlQuery)
                   ELSE Goto(r, "connect")
    /\ UNCHANGED <<sql_chatbot, conns, body, user_input, conn, results, db_error,
                   detailed_response, connReply, execReply, explReply>>

\* lines 110-114 (and 125-126): the first LLM call and the test of its result
GenerateSql(r, reply) ==
    /\ pc[r] = "generate"
    /\ calls' = [calls EXCEPT ![r] = Append(@, "openai_sql")]
    /\ genReply' = [genReply EXCEPT ![r] = Some(reply)]
    /\ LET res == get_sql_query_from_openai(reply)
       IN  IF res.raised
           THEN /\ Respond(r, GeneralError(res.text))
                /\ UNCHANGED sql_query
           ELSE /\ sql_query' = [sql_query EXCEPT ![r] = res.value]
                /\ IF SqlMissing(res.value)
                   THEN Respond(r, NoSqlQuery)
                   ELSE Goto(r, "connect")
    /\ UNCHANGED <<sql_chatbot, conns, body, user_input, conn, results, db_error,
                   detailed_response, connReply, execReply, explReply>>

\* connect_db keeping a connection on the shared object: an open connection
\* is handed out again
CachedConnect(r) ==
    IF \E i \in 1..Len(conns) : conns[i].open
    THEN [id |-> CHOOSE i \in 1..Len(conns) : conns[i].open, conns |-> conns]
    ELSE [id |-> Len(conns) + 1,
          conns |-> Append(conns, [owner |-> r, open |-> TRUE])]

\* line 23: psycopg2.connect gives a new connection, open, known to its caller
\* only
Connect(r) ==
    [id |-> Len(conns) + 1, conns |-> Append(conns, [owner |-> r, open |-> TRUE])]

\* lines 116, 31-33, 20-27 (and 118-119): execute_query starts, connect_db;
\* without a connection execute_query returns and the handler answers
ConnectDb(r, ok) ==
    /\ pc[r] = "connect"
    /\ calls' = [calls EXCEPT ![r] = Append(@, "connect")]
    /\ connReply' = [connReply EXCEPT ![r] = Some(ok)]
    /\ IF ok
       THEN /\ conn' = [conn EXCEPT ![r] = Some(Connect(r).id)]
            /\ conns' = Connect(r).conns
            /\ Goto(r, "execute")
            /\ UNCHANGED <<results, db_error>>
       ELSE /\ results' = [results EXCEPT ![r] = None]
            /\ db_error' = [db_error EXCEPT ![r] = Some(ConnectErrorString)]
            /\ IF DbFailed(Some(ConnectErrorString))
               THEN Respond(r, DbErrorResponse(ConnectErrorString))
               ELSE Goto(r, "explain")
            /\ UNCHANGED <<conn, conns>>
    /\ UNCHANGED <<sql_chatbot, body, user_input, sql_query, detailed_response,
                   genReply, execReply, explReply>>

\* lines 35-43 and 116-119 (and 125-126): the statement runs on the request's
\* connection, execute_query returns or raises, the handler tests db_error
ExecuteQuery(r, out) ==
    /\ pc[r] = "execute"
    /\ calls' = [calls EXCEPT ![r] = Append(@, "execute")]
    /\ execReply' = [execReply EXCEPT ![r] = Some(out)]
    /\ LET res == CursorBlock(out)
       IN  /\ conns' = IF res.closed
                       THEN [conns EXCEPT ![conn[r][1]].open = FALSE]
                       ELSE conns
           /\ IF res.raised
              THEN /\ Respond(r, GeneralError(res.text))
                   /\ UNCHANGED <<results, db_error>>
              ELSE /\ results' = [results EXCEPT ![r] = res.value[1]]
                   /\ db_error' = [db_error EXCEPT ![r] = res.value[2]]
                   /\ IF DbFailed(res.value[2])
                      THEN Respond(r, DbErrorResponse(res.value[2][1]))
                      ELSE Goto(r, "explain")
    /\ UNCHANGED <<sql_chatbot, body, user_input, sql_query, conn,
                   detailed_response, genReply, connReply, explReply>>

\* lines 121-126: the second LLM call, then the response is serialised
Explain(r, reply) ==
    /\ pc[r] = "explain"
    /\ calls' = [calls EXCEPT ![r] = Append(@, "openai_explain")]
    /\ explReply' = [explReply EXCEPT ![r] = Some(reply)]
    /\ LET res == get_enhanced_response(reply)
       IN  IF res.raised
           THEN /\ Respond(r, GeneralError(res.text))
                /\ UNCHANGED detailed_response
           ELSE /\ detailed_response' = [detailed_response EXCEPT ![r] = res.value]
                /\ Respond(r, SuccessResponse(results[r][1], res.value))
    /\ UNCHANGED <<sql_chatbot, conns, body, user_input, sql_query, conn, results,
                   db_error, genReply, connReply, execReply>>

----------------------------------------------------------------------------
(* The inputs: what clients, the LLM service and the database send.        *)

SeqsUpTo(S, n) == UNION {[1..k -> S] : k \in 0..n}

Bodies ==
    {Body("null", None), Body("array", None), Body("object", None),
     Body("object", Some("")), Body("object", Some("q"))}

\* the replies that carry no content
BareReplies(empty) ==
    {LLMReply("raise", 0, "text", empty), LLMReply("http", 500, "json", empty),
     LLMReply("http", 500, "text", empty), LLMReply("http", 200, "json", empty),
     LLMReply("http", 200, "text", empty)}

Completions(contents) == {LLMReply("http", 200, "choices", c) : c \in contents}

Select == <<"S">>

SqlContents ==
    {<<>>, <<" ">>, Select, <<" ">> \o Select \o <<NL>>,
     FenceSql \o Fence, FenceSql \o <<NL>> \o Fence,
     FenceSql \o <<NL>> \o Select \o <<NL>> \o Fence, Fence \o Select \o Fence}

Explanations == {"", "Hay dos usuarios."}

DbErrors ==
    {DbOutcome("psycopg2.Error", <<>>, <<>>, t) :
        t \in {"", "syntax error", "no results to fetch"}}
    \cup {DbOutcome("ValueError", <<>>, <<>>,
                    "A string literal cannot contain NUL (0x00) characters.")}

ColumnLists == {<<"id">>, <<"id", "edad">>, <<"id", "id">>}
Cells == {"1", "2", BIN}

\* the cursor gives rows as long as its description
ResultSets(columnLists, cells, maxRows) ==
    UNION {{DbOutcome("rows", c, rows, "") :
                rows \in SeqsUpTo([1..Len(c) -> cells], maxRows)} : c \in columnLists}

\* Requests in flight together: every kind of reply, little data
Traffic ==
    [bodies |-> Bodies,
     gen |-> BareReplies(<<>>) \cup Completions({<<>>, Select}),
     exec |-> DbErrors \cup ResultSets({<<"id">>}, {"1", BIN}, 1),
     expl |-> BareReplies("") \cup Completions({"Hay dos usuarios."})]

\* One request: every kind of reply, every content and result set
Data ==
    [bodies |-> Bodies,
     gen |-> BareReplies(<<>>) \cup Completions(SqlContents),
     exec |-> DbErrors \cup ResultSets(ColumnLists, Cells, MaxRows),
     expl |-> BareReplies("") \cup Completions(Explanations)]

Step(r, in) ==
    \/ \E b \in in.bodies : Receive(r, b)
    \/ \E reply \in in.gen : GenerateSql(r, reply)
    \/ \E ok \in BOOLEAN : ConnectDb(r, ok)
    \/ \E out \in in.exec : ExecuteQuery(r, out)
    \/ \E reply \in in.expl : Explain(r, reply)

Next == \E r \in Requests : Step(r, Traffic)

Spec == Init /\ [][Next]_vars

NextData == Step(1, Data)

SpecData == Init /\ [][NextData]_vars

----------------------------------------------------------------------------
(* The claims.                                                             *)

Done(r) == pc[r] = "done"
Resp(r) == response[r][1]
Made(r, call) == \E i \in 1..Len(calls[r]) : calls[r][i] = call

\* the request carries no usable userInput
LacksInput(b) == b.kind # "object" \/ b.userInput = None \/ b.userInput = Some("")

\* C1: every request whose body lacks userInput (no JSON object, null, no
\* field, an empty field) is answered 400 with an error message, never 500,
\* and makes no LLM call and no database call.
C1_MissingInputIs400 ==
    \A r \in Requests :
        (Done(r) /\ LacksInput(body[r][1])) =>
            /\ Resp(r).kind = "json"
            /\ Resp(r).status = 400
            /\ Resp(r).error # None
            /\ calls[r] = <<>>

\* C2: every connection execute_query opened is closed when execute_query has
\* returned or raised, on the success path and on every failure path.
C2_ConnectionClosedOnReturn ==
    \A r \in Requests :
        (pc[r] \in {"explain", "done"} /\ conn[r] # None) => ~conns[conn[r][1]].open

\* C3: whenever execute_query reports an error string, the response is a 500
\* whose error field is exactly that string, and get_enhanced_response is
\* never called for the request.
C3_DbErrorPassedThrough ==
    \A r \in Requests :
        /\ (connReply[r] = Some(FALSE)) => db_error[r] = Some(ConnectErrorString)
        /\ (execReply[r] # None /\ execReply[r][1].kind = "psycopg2.Error") =>
               db_error[r] # None
        /\ db_error[r] # None =>
               /\ Done(r)
               /\ Resp(r).kind = "json"
               /\ Resp(r).status = 500
               /\ Resp(r).keys = {"error"}
               /\ Resp(r).error = db_error[r]
               /\ ~Made(r, "openai_explain")
               /\ explReply[r] = None

C3_Witness ==
    \E r \in Requests :
        /\ Done(r)
        /\ execReply[r] # None
        /\ execReply[r][1].text = "syntax error"
        /\ Resp(r).error = Some("Error en la base de datos: syntax error")

\* the generator has returned (not raised), and what it returned
GenReturned(r) ==
    /\ genReply[r] # None
    /\ genReply[r][1].kind = "http"
    /\ genReply[r][1].body # "text"
    /\ genReply[r][1].status = 200 => genReply[r][1].body = "choices"

\* C4: whenever get_sql_query_from_openai returns None or an empty string, the
\* response is a 500 and neither connect_db nor execute_query is called.
C4_NoSqlNoDatabase ==
    \A r \in Requests :
        (GenReturned(r) /\ sql_query[r] \in {None, Some(<<>>)}) =>
            /\ Done(r)
            /\ Resp(r).kind = "json"
            /\ Resp(r).status = 500
            /\ calls[r] = <<"openai_sql">>
            /\ conn[r] = None
            /\ connReply[r] = None
            /\ execReply[r] = None

C4_Witness ==
    \E r \in Requests :
        /\ Done(r)
        /\ genReply[r] = Some(LLMReply("http", 200, "choices", FenceSql \o Fence))
        /\ sql_query[r] = Some(<<>>)

\* the text of the exception raised while the request was handled, if any
RaisedIn(r) ==
    IF body[r] # None /\ body[r][1].kind # "object"
    THEN Some("AttributeError")
    ELSE IF genReply[r] # None /\ get_sql_query_from_openai(genReply[r][1]).raised
    THEN Some(get_sql_query_from_openai(genReply[r][1]).text)
    ELSE IF execReply[r] # None /\ execReply[r][1].kind = "ValueError"
    THEN Some(execReply[r][1].text)
    ELSE IF explReply[r] # None /\ get_enhanced_response(explReply[r][1]).raised
    THEN Some(get_enhanced_response(explReply[r][1]).text)
    ELSE IF explReply[r] # None /\ ~Serializable(results[r][1])
    THEN Some(SerializeErrorText)
    ELSE None

\* C5: an exception raised at any step of query_database, input parsing
\* included, becomes a 500 JSON response whose error field carries the
\* exception's text; no exception leaves the handler.
C5_NoExceptionEscapes ==
    \A r \in Requests :
        (Done(r) /\ RaisedIn(r) # None) =>
            /\ Resp(r).kind = "json"
            /\ Resp(r).status = 500
            /\ Resp(r).error # None

\* the explainer did not give an explanation
ExplainFailed(reply) ==
    reply.kind = "raise" \/ reply.status # 200 \/ reply.body # "choices"

\* C6 as claimed: if SQL generation and execution succeed and the explanation
\* fails in any way (non-success status, or the call raising), the response is
\* 200 with the rows and a null enhanced_response.
C6_ExplainFailureNeverFails ==
    \A r \in Requests :
        (Done(r) /\ explReply[r] # None /\ ExplainFailed(explReply[r][1])) =>
            /\ Resp(r).status = 200
            /\ Resp(r).data = results[r]
            /\ Resp(r).enhanced_response = None

\* C6 as amended: if SQL generation and execution succeed and the explainer
\* answers with a non-success status and a JSON body, the handler builds the
\* 200 response with the rows and a null enhanced_response (a 500 only when a
\* row value cannot be serialised); if the explainer call raises, the response
\* is the 500 "Error general" with the exception's text.
C6_ExplainStatusFailureGives200 ==
    \A r \in Requests :
        (Done(r) /\ explReply[r] # None) =>
            LET reply == explReply[r][1]
            IN  /\ (reply.kind = "http" /\ reply.status # 200 /\ reply.body = "json") =>
                       IF Serializable(results[r][1])
                       THEN /\ Resp(r).status = 200
                            /\ Resp(r).keys = {"data", "enhanced_response"}
                            /\ Resp(r).data = results[r]
                            /\ Resp(r).enhanced_response = None
                       ELSE /\ Resp(r).status = 500
                            /\ Resp(r).error =
                                   Some("Error general: " \o SerializeErrorText)
                /\ reply.kind = "raise" =>
                       /\ Resp(r).status = 500
                       /\ Resp(r).error = Some("Error general: " \o PostErrorText)

C6_Witness ==
    \E r \in Requests :
        /\ Done(r)
        /\ explReply[r] = Some(LLMReply("http", 500, "json", ""))
        /\ Resp(r).status = 200
        /\ Resp(r).data # Some(<<>>)
        /\ Resp(r).enhanced_response = None

CallOrder == <<"openai_sql", "connect", "execute", "openai_explain">>

\* C7: within a request the external calls are made in the order SQL
\* generation, database (connect, execute), explanation, each at most once;
\* the database is called only after the generator returned a non-empty query,
\* the explainer only after the database returned rows without error, and a
\* 200 is sent only after all the calls were made.
C7_LinearCalls ==
    \A r \in Requests :
        /\ Len(calls[r]) <= Len(CallOrder)
        /\ calls[r] = SubSeq(CallOrder, 1, Len(calls[r]))
        /\ pc[r] = "idle" => calls[r] = <<>>
        /\ pc[r] = "generate" => calls[r] = <<>>
        /\ (pc[r] \in {"connect", "execute"} \/ Made(r, "connect")) =>
               /\ Made(r, "openai_sql")
               /\ sql_query[r] # None
               /\ sql_query[r][1] # <<>>
        /\ (pc[r] = "explain" \/ Made(r, "openai_explain")) =>
               /\ Made(r, "execute")
               /\ results[r] # None
               /\ db_error[r] = None
        /\ (Done(r) /\ Resp(r).status = 200) => calls[r] = CallOrder

C7_Witness ==
    \E r \in Requests :
        Done(r) /\ Resp(r).status = 200 /\ calls[r] = CallOrder

\* C8: in every 200 response data has one record per row the database
\* returned, in the order returned, and every record's key set is the set of
\* the query's column names, each key holding the row's value of a column of
\* that name (also with no rows, and with two columns of one name).
C8_UniformRecords ==
    \A r \in Requests :
        (Done(r) /\ Resp(r).status = 200) =>
            LET out == execReply[r][1]
                data == Resp(r).data[1]
                cols == 1..Len(out.columns)
            IN  /\ Len(data) = Len(out.rows)
                /\ \A i \in 1..Len(data) :
                       /\ DOMAIN data[i] = {out.columns[j] : j \in cols}
                       /\ \A k \in DOMAIN data[i] :
                              \E j \in cols :
                                  out.columns[j] = k /\ data[i][k] = out.rows[i][j]

C8_Witness ==
    \E r \in Requests :
        /\ Done(r)
        /\ Resp(r).status = 200
        /\ execReply[r][1].columns = <<"id", "id">>
        /\ Len(Resp(r).data[1]) = 2
        /\ Resp(r).data[1][1] # Resp(r).data[1][2]

SameExchange(r1, r2) ==
    /\ body[r1] = body[r2]
    /\ genReply[r1] = genReply[r2]
    /\ connReply[r1] = connReply[r2]
    /\ execReply[r1] = execReply[r2]
    /\ explReply[r1] = explReply[r2]

\* C9: under every interleaving of the requests in flight, a request holds
\* only a connection it opened itself and no two requests hold the same one,
\* the shared sql_chatbot object stays as constructed, and two requests with
\* the same input and the same replies to their calls get the same response.
C9_RequestsIndependent ==
    /\ sql_chatbot = SQLChatBot
    /\ \A r \in Requests :
           conn[r] # None =>
               /\ conn[r][1] \in 1..Len(conns)
               /\ conns[conn[r][1]].owner = r
    /\ \A r1, r2 \in Requests :
           (r1 # r2 /\ conn[r1] # None) => conn[r1] # conn[r2]
    /\ \A r1, r2 \in Requests :
           (Done(r1) /\ Done(r2) /\ SameExchange(r1, r2)) =>
               response[r1] = response[r2]

C9_Witness ==
    \E r1, r2 \in Requests :
        /\ r1 # r2
        /\ pc[r1] = "execute"
        /\ pc[r2] = "execute"
        /\ conns[conn[r1][1]].open
        /\ conns[conn[r2][1]].open
        /\ conn[r1][1] > conn[r2][1]
        /\ r1 < r2

\* execute_query has returned normally for the request
ExecuteQueryReturned(r) ==
    \/ connReply[r] = Some(FALSE)
    \/ execReply[r] # None /\ execReply[r][1].kind # "ValueError"

\* C10: every normal return of execute_query gives exactly one of rows and
\* error, the error never an empty string, so the handler's test of db_error
\* takes a failed query to the 500 and a successful one on to the explainer.
C10_RowsXorError ==
    \A r \in Requests :
        ExecuteQueryReturned(r) =>
            /\ (results[r] # None) # (db_error[r] # None)
            /\ db_error[r] # None => db_error[r][1] # ""
            /\ db_error[r] # None =>
                   Done(r) /\ Resp(r).status = 500 /\ ~Made(r, "openai_explain")
            /\ results[r] # None => (pc[r] = "explain" \/ Made(r, "openai_explain"))

C10_Witness ==
    \E r \in Requests :
        /\ execReply[r] # None
        /\ execReply[r][1].kind = "psycopg2.Error"
        /\ execReply[r][1].text = ""
        /\ db_error[r] = Some("Error en la base de datos: ")
        /\ results[r] = None

====
